---- MODULE Spec2Model ----
(***************************************************************************)
(* Model of src/index.js: the windowed consensus builder that turns a      *)
(* variant-call table into one aligned text per sample.                    *)
(*                                                                         *)
(* Text is a sequence of one-character strings, so "AT" is <<"A","T">>.    *)
(* A window is a sequence of slots; a slot maps each sample index to a     *)
(* fragment or to Undefined (the hole left by `new Array(sampleCount)`).   *)
(***************************************************************************)
EXTENDS Integers, Sequences, FiniteSets, TLC

\* ---------------------------------------------------------------- bounds
\* Number of data records read from the input before it ends.
MaxLines == 3
\* Largest POS value of a record.
MaxPos == 2
\* Number of data records read in the runs that record the sample files.
MaxRecordedLines == 2

\* ---------------------------------------------------------------- inputs
\* Sample names given on the command line (process.argv after OUTPUT_NAME).
SampleNameLists == { <<"s1">>, <<"s1", "s2">> }

\* Columns of a header line up to and including FORMAT.
FixedColumns == <<"#CHROM", "POS", "REF", "ALT", "FORMAT">>

\* Header lines the input may carry: the fixed columns and the sample columns.
HeaderLines == { FixedColumns \o names : names \in SampleNameLists }

Chromosomes == { "chr1", "chr2" }

\* REF and the comma-split ALT column of a record.
Alleles ==
  { [reference |-> <<"A">>,           alternates |-> << <<"C">> >>],
    [reference |-> <<"A", "T">>,      alternates |-> << <<"A", "T", "T", "T">> >>],
    [reference |-> <<"A", "G">>,      alternates |-> << <<"A">> >>],
    [reference |-> <<"A", "C", "G">>, alternates |-> << <<"A">> >>] }

\* Genotype column of one sample.
GenotypeTokens == { <<".">>, <<"0">>, <<"1">>, <<"2">> }

\* ----------------------------------------------------------- JS values
\* `null`, returned by getReplacement for a missing call.
Null == <<"null">>
\* `undefined`: an array hole, or an index past the end of an array.
Undefined == <<"undefined">>
\* `x == null` / `x != null` / `??=` treat both alike.
IsNullish(x) == x \in {Null, Undefined}

Digits == {"0", "1", "2", "3", "4", "5", "6", "7", "8", "9"}
DigitValue ==
  [d \in Digits |->
     CASE d = "0" -> 0 [] d = "1" -> 1 [] d = "2" -> 2 [] d = "3" -> 3
       [] d = "4" -> 4 [] d = "5" -> 5 [] d = "6" -> 6 [] d = "7" -> 7
       [] d = "8" -> 8 [] d = "9" -> 9]

RECURSIVE LeadingDigits(_)
\* The match of \d+ at the start of a text (empty when there is none).
LeadingDigits(t) ==
  IF t = <<>> \/ Head(t) \notin Digits THEN <<>>
  ELSE <<Head(t)>> \o LeadingDigits(Tail(t))

\* /^(\d+|\.)/.exec(sample)[0]
Location(sample) ==
  IF LeadingDigits(sample) # <<>> THEN LeadingDigits(sample) ELSE <<".">>

RECURSIVE ToNumber(_)
\* Numeric coercion of a digit string, as in `location - 1`.
ToNumber(ds) ==
  IF ds = <<>> THEN 0
  ELSE 10 * ToNumber(SubSeq(ds, 1, Len(ds) - 1)) + DigitValue[ds[Len(ds)]]

\* alternates[i] with a 0-based index i.
ArrayGet(arr, i) == IF i >= 0 /\ i < Len(arr) THEN arr[i + 1] ELSE Undefined

\* getReplacement resolving a missing call to the filler at once.
getReplacementEager(location, reference, alternates) ==
  IF location = <<".">> THEN <<"N">>
  ELSE IF location = <<"0">> THEN reference
  ELSE ArrayGet(alternates, ToNumber(location) - 1)

\* Lines 7-10
getReplacement(location, reference, alternates) ==
  IF location = <<".">> THEN Null
  ELSE IF location = <<"0">> THEN reference
  ELSE ArrayGet(alternates, ToNumber(location) - 1)

RECURSIVE Repeat(_, _)
Repeat(c, n) == IF n <= 0 THEN <<>> ELSE <<c>> \o Repeat(c, n - 1)

\* String.prototype.padEnd(targetLength, padString) for a one-character pad.
padEnd(s, targetLength, c) == s \o Repeat(c, targetLength - Len(s))


\* columns.indexOf(name): 0-based, -1 when absent.
IndexOf(columns, name) ==
  IF \E i \in 1..Len(columns) : columns[i] = name
  THEN (CHOOSE i \in 1..Len(columns) :
          columns[i] = name /\ \A j \in 1..(i - 1) : columns[j] # name) - 1
  ELSE -1

\* columns.slice(-n)
SliceLast(columns, n) ==
  IF n >= Len(columns) THEN SubSeq(columns, 1, Len(columns))
  ELSE SubSeq(columns, Len(columns) - n + 1, Len(columns))

\* ----------------------------------------------------------------- state
VARIABLES
  sampleNames,     \* process.argv sample names
  headers,         \* header columns, Null until the header line is parsed
  headerLine,      \* the header line the input supplied (Null before it is read)
  lineNumber,      \* index of the last line read, -1 before the first
  record,          \* the data line being processed (namedColumns)
  samples,         \* its genotype columns, columns.slice(-sampleCount)
  chromChanged,    \* whether that line took the branch of line 91
  prevChromosome,
  window,
  windowEnd,
  drainPending,    \* sampleStreamDrainedPromises[si] is still pending
  pc,              \* position of the main loop
  fi,              \* index into the iteration of `for (const replacements of window)`
  si,              \* sample index of the write loop (1-based)
  maxReplacementLength,
  needDrain,       \* sink: the last write returned false, 'drain' not yet emitted
  ended,           \* sink: end() was called
  closed,          \* sink: 'close' was emitted
  flushed,         \* per sample: the writes of the flush in progress, in order
  recording,       \* whether this run records sinkText and consumed
  sinkText,        \* per sample: the text its file holds, when recording
  consumed,        \* the data lines merged so far, when recording
  leftEdge,        \* position of the first line merged since the last flush, 0 if none
  maxEnd,          \* largest position + reference length merged since the last flush
  lastEnd          \* windowEnd after the line merged before this one

vars == <<sampleNames, headers, headerLine, lineNumber, record, samples,
          chromChanged, prevChromosome, window, windowEnd, drainPending, pc,
          fi, si, maxReplacementLength, needDrain, ended, closed, flushed,
          recording, sinkText, consumed, leftEdge, maxEnd, lastEnd>>

sampleCount == Len(sampleNames)
Samples == 1..sampleCount

NoRecord ==
  [chromosome |-> "", position |-> 0, reference |-> <<>>, alternates |-> <<>>]

Start ==
  /\ sampleNames \in SampleNameLists
  /\ headers = Null
  /\ headerLine = Null
  /\ lineNumber = -1
  /\ record = NoRecord
  /\ samples = <<>>
  /\ chromChanged = FALSE
  /\ prevChromosome = ""
  /\ window = <<>>
  /\ windowEnd = 0
  /\ drainPending = Repeat(FALSE, sampleCount)
  /\ pc = "header"
  /\ fi = 0
  /\ si = 0
  /\ maxReplacementLength = 0
  /\ needDrain = Repeat(FALSE, sampleCount)
  /\ ended = Repeat(FALSE, sampleCount)
  /\ closed = Repeat(FALSE, sampleCount)
  /\ flushed = Repeat(<<>>, sampleCount)
  /\ sinkText = Repeat(<<>>, sampleCount)
  /\ consumed = <<>>
  /\ leftEdge = 0
  /\ maxEnd = 0
  /\ lastEnd = 0

\* Runs of up to MaxLines data lines; the files' contents are not recorded.
Init == Start /\ recording = FALSE

\* Runs of up to MaxRecordedLines data lines with the files' contents and
\* the merged lines recorded.
InitRecorded == Start /\ recording = TRUE

\* The number of data lines after which the input has ended at the latest.
LineLimit == IF recording THEN MaxRecordedLines ELSE MaxLines

\* ---------------------------------------------------------------- header
\* lastColumnIndex - columns.indexOf("FORMAT")
ActualSampleCount(columns) == (Len(columns) - 1) - IndexOf(columns, "FORMAT")

\* SampleCountMatches without the comparison.
SampleCountUnchecked(expected, columns) == TRUE

\* The check of line 79 passes.
SampleCountMatches(expected, columns) == expected = ActualSampleCount(columns)

\* Lines 75-84: the first line is the header.
ReadHeader ==
  /\ pc = "header"
  /\ \E line \in HeaderLines :
       /\ headerLine' = line
       /\ lineNumber' = lineNumber + 1
       /\ IF SampleCountMatches(sampleCount, line)
          THEN headers' = line /\ pc' = "read"
          ELSE headers' = headers /\ pc' = "aborted"
  /\ UNCHANGED <<sampleNames, recording, leftEdge, maxEnd, lastEnd, record, samples, chromChanged, prevChromosome, window,
                 windowEnd, drainPending, fi, si, maxReplacementLength,
                 needDrain, ended, closed, flushed,
                 sinkText, consumed>>

\* ---------------------------------------------------------- data records
\* The #CHROM, POS, REF and ALT columns the next data line may carry. The
\* input is sorted by ascending position within a chromosome: a line that
\* stays on the chromosome of the line before it has a position not below
\* that line's.
RecordLines ==
  { [chromosome |-> c, position |-> p, reference |-> a.reference,
     alternates |-> a.alternates] :
      c \in Chromosomes, p \in 1..MaxPos, a \in Alleles }

\* The columns after FORMAT that a data line may carry, one per sample
\* column of the header.
SampleColumns == [1..ActualSampleCount(headers) -> GenotypeTokens]

Sorted(line) ==
  line.chromosome = prevChromosome => line.position >= record.position

\* ResetWindowEnd keeping windowEnd across chromosomes.
NoResetWindowEnd(chromosome, prev, end) == end

\* Lines 91-97: windowEnd after the chromosome test.
ResetWindowEnd(chromosome, prev, end) == IF chromosome # prev THEN 0 ELSE end

\* WindowOnChromosome emptying the window when the chromosome changes.
DiscardOnChromosome(chromosome, prev, w) == IF chromosome # prev THEN <<>> ELSE w

\* Lines 91-97: the window after the chromosome test (it is not assigned).
WindowOnChromosome(chromosome, prev, w) == w

\* Line 100: the window is flushed before the record is merged.
MustFlush(position, end) == position >= end

\* Lines 66-100: read a data line, apply the chromosome test and decide
\* whether the window is flushed first.
ReadRecord ==
  /\ pc = "read"
  /\ lineNumber < LineLimit
  /\ \E line \in RecordLines :
       /\ Sorted(line)
       /\ record' = line
       /\ samples' = <<>>
       /\ lineNumber' = lineNumber + 1
       /\ chromChanged' = (line.chromosome # prevChromosome)
       /\ prevChromosome' = line.chromosome
       /\ windowEnd' = ResetWindowEnd(line.chromosome, prevChromosome, windowEnd)
       /\ window' = WindowOnChromosome(line.chromosome, prevChromosome, window)
       /\ IF MustFlush(line.position, windowEnd')
          THEN pc' = "flush" /\ fi' = 1
          ELSE pc' = "merge" /\ fi' = fi
  /\ UNCHANGED <<sampleNames, recording, leftEdge, maxEnd, lastEnd, headers, headerLine, drainPending, si,
                 maxReplacementLength, needDrain, ended, closed, flushed,
                 sinkText, consumed>>

\* ------------------------------------------------------------------ flush
\* FlushOrder visiting the slots from the last to the first.
ReverseOrder(w, k) == Len(w) + 1 - k

\* `for (const replacements of window)` visits the slots in index order:
\* the slot index visited at step k of the iteration.
FlushOrder(w, k) == k

RECURSIVE FillUnset(_)
\* Line 104: replacements[si] ??= "N", for every sample of the slot.
FillUnset(replacements) ==
  IF replacements = <<>> THEN <<>>
  ELSE <<IF IsNullish(Head(replacements)) THEN <<"N">> ELSE Head(replacements)>>
         \o FillUnset(Tail(replacements))

RECURSIVE MaxLength(_, _)
\* Lines 102-107: the longest entry among samples 1..n of a slot.
MaxLength(replacements, n) ==
  IF n = 0 THEN 0
  ELSE LET m == MaxLength(replacements, n - 1)
           l == Len(replacements[n])
       IN IF l > m THEN l ELSE m

\* Lines 101-107: enter the next slot, fill its unset entries and find the
\* longest entry.
FlushSlot ==
  /\ pc = "flush"
  /\ fi <= Len(window)
  /\ LET k == FlushOrder(window, fi)
         filled == FillUnset(window[k])
     IN /\ window' = [window EXCEPT ![k] = filled]
        /\ maxReplacementLength' = MaxLength(filled, sampleCount)
  /\ si' = 1
  /\ pc' = "write"
  /\ UNCHANGED <<sampleNames, recording, leftEdge, maxEnd, lastEnd, headers, headerLine, lineNumber, record, samples,
                 chromChanged, prevChromosome, windowEnd, drainPending, fi,
                 needDrain, ended, closed, flushed,
                 sinkText, consumed>>

\* DrainAwaited without the await.
NotAwaited(pending, s) == TRUE

\* Line 114: `await sampleStreamDrainedPromises[si]` lets the loop go on.
DrainAwaited(pending, s) == ~pending[s]

\* Padded without the padEnd call.
NotPadded(replacement, maxLength) == replacement

\* Line 110: the text written for a sample at a slot.
Padded(replacement, maxLength) == padEnd(replacement, maxLength, "-")

\* Write losing the chunk when write() returns false.
WriteDropsUnready(text, chunk, ok) == IF ok THEN text \o chunk ELSE text

\* Line 116: the stream takes the chunk whatever write() returns; `text` is
\* what the file holds and what the stream has buffered for it.
Write(text, chunk, ok) == text \o chunk

\* Lines 109-119: wait for the sample's stream, write the padded entry and,
\* when write() returns false, leave a promise that 'drain' resolves.
FlushWrite ==
  /\ pc = "write"
  /\ DrainAwaited(drainPending, si)
  /\ LET k == FlushOrder(window, fi)
         replacement == Padded(window[k][si], maxReplacementLength)
     IN /\ flushed' = [flushed EXCEPT ![si] =
                         Append(@, [slot |-> k, text |-> replacement])]
        /\ \E ok \in BOOLEAN :
             /\ needDrain[si] => ~ok
             /\ sinkText' = IF recording
                            THEN [sinkText EXCEPT ![si] = Write(@, replacement, ok)]
                            ELSE sinkText
             /\ needDrain' = [needDrain EXCEPT ![si] = ~ok]
             /\ drainPending' =
                  [drainPending EXCEPT ![si] = IF ok THEN @ ELSE TRUE]
  /\ IF si < sampleCount
     THEN si' = si + 1 /\ UNCHANGED <<fi, pc>>
     ELSE si' = si /\ fi' = fi + 1 /\ pc' = "flush"
  /\ UNCHANGED <<sampleNames, recording, leftEdge, maxEnd, lastEnd, headers, headerLine, lineNumber, record, samples,
                 chromChanged, prevChromosome, window, windowEnd,
                 maxReplacementLength, ended, closed,
                 consumed>>

\* Lines 122-123: after the last slot the window is emptied and starts at
\* the record's position.
FlushEnd ==
  /\ pc = "flush"
  /\ fi > Len(window)
  /\ window' = <<>>
  /\ windowEnd' = record.position
  /\ flushed' = Repeat(<<>>, sampleCount)
  /\ leftEdge' = 0
  /\ maxEnd' = 0
  /\ pc' = "merge"
  /\ UNCHANGED <<sampleNames, recording, lastEnd, headers, headerLine, lineNumber, record, samples,
                 chromChanged, prevChromosome, drainPending, fi, si,
                 maxReplacementLength, needDrain, ended, closed,
                 sinkText, consumed>>

\* ------------------------------------------------------------------ merge
\* new Array(sampleCount)
EmptySlot(n) == Repeat(Undefined, n)

\* Expand pushing one slot more than the positions up to minWindowEnd.
ExpandInclusive(w, end, minWindowEnd, n) ==
  w \o Repeat(EmptySlot(n), minWindowEnd - end + 1)

RECURSIVE Expand(_, _, _, _)
\* Lines 129-130: push one empty slot per position from `end` up to
\* minWindowEnd.
Expand(w, end, minWindowEnd, n) ==
  IF end >= minWindowEnd THEN w
  ELSE Expand(Append(w, EmptySlot(n)), end + 1, minWindowEnd, n)

\* UpdateWindowEnd assigning the record's end without the comparison.
AssignMinWindowEnd(end, minWindowEnd) == minWindowEnd

\* Lines 133-134
UpdateWindowEnd(end, minWindowEnd) ==
  IF minWindowEnd > end THEN minWindowEnd ELSE end

\* EntryIsSet without the test.
NeverSet(entry) == FALSE

\* Line 143: `window[windowPos][si] != null`, the entry is kept as it is.
EntryIsSet(entry) == ~IsNullish(entry)

RECURSIVE StoreRun(_, _, _, _, _, _)
\* Lines 155-159: from index i on, one character of the fragment per slot,
\* then '-' up to the reference length.
StoreRun(w, windowPos, s, replacement, reference, i) ==
  IF i >= Len(reference) THEN w
  ELSE StoreRun([w EXCEPT ![windowPos + i + 1][s] =
                   IF i < Len(replacement) THEN <<replacement[i + 1]>>
                   ELSE <<"-">>],
                windowPos, s, replacement, reference, i + 1)

\* StoreReplacement storing every fragment whole in the record's first slot.
StoreWhole(w, windowPos, s, replacement, reference) ==
  [w EXCEPT ![windowPos + 1][s] = replacement]

\* Lines 150-159: store a resolved fragment for sample s at the 0-based
\* window position windowPos: whole when it is at least as long as the
\* reference, else spread over the slots of the reference's span.
StoreReplacement(w, windowPos, s, replacement, reference) ==
  IF Len(replacement) >= Len(reference)
  THEN [w EXCEPT ![windowPos + 1][s] = replacement]
  ELSE StoreRun(w, windowPos, s, replacement, reference, 0)

\* Lines 143-159: the body of the sample loop for sample s.
MergeSample(w, windowPos, s, line, columns) ==
  IF EntryIsSet(w[windowPos + 1][s]) THEN w
  ELSE LET location == Location(columns[s])
           replacement == getReplacement(location, line.reference, line.alternates)
       IN IF IsNullish(replacement) THEN w
          ELSE StoreReplacement(w, windowPos, s, replacement, line.reference)

RECURSIVE MergeSamples(_, _, _, _, _)
\* Lines 142-160: the sample loop over samples 1..n.
MergeSamples(w, windowPos, n, line, columns) ==
  IF n = 0 THEN w
  ELSE MergeSample(MergeSamples(w, windowPos, n - 1, line, columns),
                   windowPos, n, line, columns)

\* MinWindowEnd without the reference length.
MinWindowEndAtPosition(line) == line.position

\* Line 128
MinWindowEnd(line) == line.position + Len(line.reference)

\* Lines 137-138: the record's 0-based position in the window, for the
\* expanded window w and the updated right edge `end`.
WindowPos(line, w, end) == line.position - (end - Len(w))

\* Lines 143 and 156-158: reading window[windowPos][si] when the window has
\* no slot at windowPos, or storing into the slot at windowPos + i when the
\* window ends before it, throws a TypeError and the process ends there.
\* The entries tested are those of the window before the sample loop: a
\* sample's stores touch its own column only.
MergeThrows(w, windowPos, n, line, columns) ==
  \/ windowPos < 0
  \/ windowPos >= Len(w)
  \/ \E s \in 1..n :
       LET replacement == getReplacement(Location(columns[s]), line.reference,
                                         line.alternates)
       IN /\ ~EntryIsSet(w[windowPos + 1][s])
          /\ ~IsNullish(replacement)
          /\ Len(replacement) < Len(line.reference)
          /\ windowPos + Len(line.reference) > Len(w)

\* Lines 126-160: expand the window to the record's span and store each
\* sample's fragment. The genotype columns of the line are first looked at
\* here (line 141), so the model draws them here.
Merge ==
  /\ pc = "merge"
  /\ \E columns \in SampleColumns :
       samples' = SliceLast(columns, sampleCount)
  /\ LET expanded == Expand(window, windowEnd, MinWindowEnd(record), sampleCount)
         end == UpdateWindowEnd(windowEnd, MinWindowEnd(record))
         windowPos == WindowPos(record, expanded, end)
     IN /\ windowEnd' = end
        /\ IF MergeThrows(expanded, windowPos, sampleCount, record, samples')
           THEN /\ window' = expanded
                /\ pc' = "crashed"
                /\ UNCHANGED <<consumed, leftEdge, maxEnd, lastEnd>>
           ELSE /\ window' = MergeSamples(expanded, windowPos, sampleCount,
                                          record, samples')
                /\ pc' = "read"
                /\ consumed' =
                     IF recording
                     THEN Append(consumed, [line |-> record, samples |-> samples'])
                     ELSE consumed
                /\ leftEdge' = IF leftEdge = 0 THEN record.position ELSE leftEdge
                /\ maxEnd' = IF MinWindowEnd(record) > maxEnd
                             THEN MinWindowEnd(record) ELSE maxEnd
                /\ lastEnd' = end
  /\ UNCHANGED <<sampleNames, recording, headers, headerLine, lineNumber, record,
                 chromChanged, prevChromosome, drainPending, fi, si,
                 maxReplacementLength, needDrain, ended, closed, flushed,
                 sinkText>>

\* ----------------------------------------------------------- end of input
\* Lines 161-164 and closeStream: the loop ends with the input and end() is
\* called on every sample stream.
EndOfInput ==
  /\ pc = "read"
  /\ ended' = Repeat(TRUE, sampleCount)
  /\ pc' = "closing"
  /\ UNCHANGED <<sampleNames, recording, leftEdge, maxEnd, lastEnd, headers, headerLine, lineNumber, record, samples,
                 chromChanged, prevChromosome, window, windowEnd, drainPending,
                 fi, si, maxReplacementLength, needDrain, closed, flushed,
                 sinkText, consumed>>

\* A sample stream emits 'close' after end().
StreamClose(s) ==
  /\ ended[s]
  /\ ~closed[s]
  /\ closed' = [closed EXCEPT ![s] = TRUE]
  /\ UNCHANGED <<sampleNames, recording, leftEdge, maxEnd, lastEnd, headers, headerLine, lineNumber, record, samples,
                 chromChanged, prevChromosome, window, windowEnd, drainPending,
                 pc, fi, si, maxReplacementLength, needDrain, ended, flushed,
                 sinkText, consumed>>

\* Line 164: `await Promise.all(...)` resumes once every stream has closed.
AllClosed ==
  /\ pc = "closing"
  /\ \A s \in Samples : closed[s]
  /\ pc' = "done"
  /\ UNCHANGED <<sampleNames, recording, leftEdge, maxEnd, lastEnd, headers, headerLine, lineNumber, record, samples,
                 chromChanged, prevChromosome, window, windowEnd, drainPending,
                 fi, si, maxReplacementLength, needDrain, ended, closed, flushed,
                 sinkText, consumed>>

\* Lines 116-118: a stream whose write returned false emits 'drain', which
\* resolves the promise left for it.
Drain(s) ==
  /\ needDrain[s]
  /\ ~ended[s]
  /\ needDrain' = [needDrain EXCEPT ![s] = FALSE]
  /\ drainPending' = [drainPending EXCEPT ![s] = FALSE]
  /\ UNCHANGED <<sampleNames, recording, leftEdge, maxEnd, lastEnd, headers, headerLine, lineNumber, record, samples,
                 chromChanged, prevChromosome, window, windowEnd, pc, fi, si,
                 maxReplacementLength, ended, closed, flushed,
                 sinkText, consumed>>

Next ==
  \/ ReadHeader
  \/ ReadRecord
  \/ FlushSlot
  \/ FlushWrite
  \/ FlushEnd
  \/ Merge
  \/ EndOfInput
  \/ \E s \in Samples : StreamClose(s)
  \/ AllClosed
  \/ \E s \in Samples : Drain(s)

Spec == Init /\ [][Next]_vars

SpecRecorded == InitRecorded /\ [][Next]_vars

\* ================================================================ claims
\* The loop over the window's slots has ended and the window is not yet
\* emptied (between line 120 and line 122).
FlushComplete == pc = "flush" /\ fi > Len(window)

\* A flush is in progress.
Flushing == pc \in {"flush", "write"}

RECURSIVE TotalLength(_)
\* Number of characters a sequence of writes carries.
TotalLength(writes) ==
  IF writes = <<>> THEN 0 ELSE Len(Head(writes).text) + TotalLength(Tail(writes))

\* C1: in every flush each sample is written, slot by slot, a text as long
\* as the longest entry of that slot, so that any two samples are written
\* texts of the same length at every slot and, once the flush is complete,
\* the same number of characters in total.
C1_EqualLengthPerFlush ==
  /\ \A s \in Samples : \A n \in 1..Len(flushed[s]) :
       LET w == flushed[s][n]
       IN /\ \A t \in Samples : Len(w.text) >= Len(window[w.slot][t])
          /\ \E t \in Samples : Len(w.text) = Len(window[w.slot][t])
  /\ \A i, j \in Samples : \A n \in 1..Len(flushed[i]) :
       n <= Len(flushed[j]) => Len(flushed[i][n].text) = Len(flushed[j][n].text)
  /\ FlushComplete =>
       \A i, j \in Samples : TotalLength(flushed[i]) = TotalLength(flushed[j])

\* A complete flush of a slot whose entries differ in length between two
\* samples.
C1_Witness ==
  /\ FlushComplete
  /\ \E i, j \in Samples : \E k \in 1..Len(window) :
       Len(window[k][i]) < Len(window[k][j])

\* The record of a merged line that calls the reference for sample s.
IsReferenceCall(entry, s) == Location(entry.samples[s]) = <<"0">>

\* No merged line reaches into the span of the line after it on the same
\* chromosome.
NonOverlapping(lines) ==
  \A n \in 1..(Len(lines) - 1) :
    lines[n + 1].line.chromosome = lines[n].line.chromosome =>
      lines[n + 1].line.position >=
        lines[n].line.position + Len(lines[n].line.reference)

RECURSIVE ReferenceText(_)
\* The reference alleles of the merged lines, one after the other.
ReferenceText(lines) ==
  IF lines = <<>> THEN <<>>
  ELSE Head(lines).line.reference \o ReferenceText(Tail(lines))

\* C2: when the input has ended the buffered window has been flushed before
\* the sinks are closed, and a run over the single record with reference "A"
\* and genotype "0" for its one sample leaves "A" in that sample's file.
C2_DrainedAtEnd ==
  /\ pc \in {"closing", "done"} => window = <<>>
  /\ (/\ pc = "done"
      /\ sampleCount = 1
      /\ Len(consumed) = 1
      /\ consumed[1].line.reference = <<"A">>
      /\ consumed[1].samples = << <<"0">> >>) => sinkText[1] = <<"A">>

\* C3: at the end of a run over non-overlapping records, the file of a sample
\* that calls the reference in every record holds the records' reference
\* alleles one after the other.
C3_ReferenceReproduced ==
  pc = "done" =>
    \A s \in Samples :
      (/\ NonOverlapping(consumed)
       /\ \A n \in 1..Len(consumed) : IsReferenceCall(consumed[n], s))
      => sinkText[s] = ReferenceText(consumed)

\* C4: a sample whose sink is not ready holds back only its own writes: the
\* loop is never stopped at the not-ready sink of one sample while another
\* sample, whose sink is ready, still has a slot of this flush to be written.
C4_PerSampleBackpressure ==
  ~ \E i, j \in Samples :
      /\ pc = "write" /\ si = i
      /\ needDrain[i] /\ drainPending[i]
      /\ j # i
      /\ ~needDrain[j]
      /\ Len(flushed[j]) < Len(window)

\* C5: a write is issued to a sample's sink only while that sink is ready,
\* never between a write that returned false and the 'drain' that follows.
C5_WriteOnlyWhenReady ==
  [][\A s \in Samples : Len(flushed'[s]) > Len(flushed[s]) => ~needDrain[s]]_vars

\* The loop waits at a sink whose last write returned false.
C5_Witness == pc = "write" /\ needDrain[si] /\ flushed[si] # <<>>

\* C6: whatever the order of the drain signals, the slots written to a
\* sample's sink in a flush are in strictly ascending slot order, and the
\* window is emptied, and a later window begun, only when every slot of it
\* has been written to every sample; outside a flush nothing is written.
C6_AscendingOrder ==
  /\ \A s \in Samples : \A m, n \in 1..Len(flushed[s]) :
       m < n => flushed[s][m].slot < flushed[s][n].slot
  /\ FlushComplete =>
       \A s \in Samples :
         {flushed[s][n].slot : n \in 1..Len(flushed[s])} = 1..Len(window)
  /\ ~Flushing => \A s \in Samples : flushed[s] = <<>>

\* The flush set off by the third record is complete, it wrote more than one
\* slot to two samples and a drain signal is still due.
C6_Witness ==
  /\ FlushComplete
  /\ lineNumber = 3
  /\ sampleCount = 2
  /\ Len(window) >= 2
  /\ \E s \in Samples : needDrain[s]

\* The genotype column calls an alternate whose index is past the end of
\* the alternates list.
OutOfRange(sample, alternates) ==
  /\ Location(sample) # <<".">>
  /\ ToNumber(Location(sample)) >= 1
  /\ ToNumber(Location(sample)) > Len(alternates)

\* The 0-based window position of the line merged last.
MergedPos == record.position - (windowEnd - Len(window))

\* The line read last has been merged.
Merged == pc = "read" /\ samples # <<>>

\* C7: a call of an alternate past the end of the alternates list aborts the
\* run when it is resolved: the loop never gets past a record in which such
\* a call was resolved (the sample's entry at the record's position was
\* unset, so that the call was looked at) to read on.
C7_OutOfRangeAborts ==
  Merged =>
    \A s \in Samples :
      ~(/\ OutOfRange(samples[s], record.alternates)
        /\ IsNullish(window[MergedPos + 1][s]))

\* Number of sample columns of a header line.
SampleColumnCount(line) == Len(line) - Len(FixedColumns)

\* C8: a header whose number of sample columns differs from the number of
\* sample names ends the run at the header: no data record is read, the
\* window stays empty and nothing is written to any sink.
C8_HeaderMismatchFatal ==
  (headerLine # Null /\ SampleColumnCount(headerLine) # Len(sampleNames)) =>
    /\ pc = "aborted"
    /\ headers = Null
    /\ lineNumber = 0
    /\ record = NoRecord
    /\ window = <<>>
    /\ \A s \in Samples : flushed[s] = <<>> /\ sinkText[s] = <<>> /\ ~needDrain[s]

\* The run was ended by a header with the wrong number of sample columns.
C8_Witness ==
  /\ pc = "aborted"
  /\ headerLine # Null
  /\ SampleColumnCount(headerLine) # Len(sampleNames)

\* C9 as stated: after a change of chromosome the slots still buffered for
\* the chromosome before are dropped, none of them is written to a sink.
C9_DiscardedOnChromosomeChange ==
  (chromChanged /\ Flushing) => \A s \in Samples : flushed[s] = <<>>

\* C9 as amended: a record of another chromosome than the record before it,
\* read while the window is not empty, sets windowEnd to zero and leaves the
\* window as it is, so that the window is flushed; every slot buffered for
\* the chromosome before has been written to every sample when the window is
\* emptied for the new record.
C9_FlushedOnChromosomeChange ==
  /\ [][(/\ pc = "read"
         /\ record' # record \/ lineNumber' # lineNumber
         /\ record'.chromosome # prevChromosome
         /\ window # <<>>)
        => (windowEnd' = 0 /\ window' = window /\ pc' = "flush" /\ fi' = 1)]_vars
  /\ [](chromChanged /\ FlushComplete =>
          \A s \in Samples :
            {flushed[s][n].slot : n \in 1..Len(flushed[s])} = 1..Len(window))

\* The flush after a change of chromosome is complete and wrote buffered
\* slots of the chromosome before.
C9_Witness ==
  /\ chromChanged
  /\ FlushComplete
  /\ window # <<>>
  /\ \A s \in Samples : Len(flushed[s]) = Len(window)

\* C10: an entry of the window that is set stays as it is until the window
\* is emptied by the flush: no merge of a later record, also none that stores
\* a run of characters and gaps for a short fragment, changes it.
C10_FirstWriterWins ==
  [][\A k \in 1..Len(window) : \A s \in Samples :
       (~IsNullish(window[k][s]) /\ ~(FlushComplete /\ pc' = "merge"))
       => (k <= Len(window') /\ window'[k][s] = window[k][s])]_vars

\* A merged record lies inside the run stored by an earlier record's short
\* fragment: the entry at its position is a gap, and its own call, which
\* resolves to a fragment, was not stored.
C10_Witness ==
  /\ Merged
  /\ \E s \in Samples :
       /\ window[MergedPos + 1][s] = <<"-">>
       /\ ~IsNullish(getReplacement(Location(samples[s]), record.reference,
                                    record.alternates))

\* C11: after each record has been processed, windowEnd is the largest
\* position + reference length of the records merged into the window since
\* the last flush, and the window has exactly windowEnd - left edge slots,
\* the left edge being the position of the first record merged since then.
C11_WindowSpan ==
  Merged =>
    /\ windowEnd = maxEnd
    /\ Len(window) = windowEnd - leftEdge

\* A second record has been merged into a window that began at position 1.
C11_Witness ==
  /\ Merged
  /\ leftEdge = 1
  /\ record.position = 2
  /\ Len(window) = 3

\* The fragment the merged line `entry` resolves to for sample s.
Fragment(entry, s) ==
  getReplacement(Location(entry.samples[s]), entry.line.reference,
                 entry.line.alternates)

\* The flush of a window made of the one line merged so far is complete.
SingleRecordFlushed == FlushComplete /\ Len(consumed) = 1 /\ window # <<>>

RECURSIVE FlushText(_)
\* The text a sequence of writes carries.
FlushText(writes) ==
  IF writes = <<>> THEN <<>> ELSE Head(writes).text \o FlushText(Tail(writes))

\* C12: when a window made of a single record is flushed and some sample's
\* fragment is longer than the reference (an insertion of length L), every
\* sample has been written exactly L characters for that window; reference
\* "AT" with genotype "0" for sample 1 and genotype "1", alternate "ATTT",
\* for sample 2 gives "AT--" and "ATTT".
C12_InsertionLength ==
  SingleRecordFlushed =>
    /\ \A s \in Samples :
         (/\ ~IsNullish(Fragment(consumed[1], s))
          /\ Len(Fragment(consumed[1], s)) > Len(consumed[1].line.reference))
         => \A t \in Samples :
              TotalLength(flushed[t]) = Len(Fragment(consumed[1], s))
    /\ (/\ sampleCount = 2
        /\ consumed[1].line.reference = <<"A", "T">>
        /\ consumed[1].line.alternates = << <<"A", "T", "T", "T">> >>
        /\ consumed[1].samples = << <<"0">>, <<"1">> >>)
       => /\ FlushText(flushed[1]) = <<"A", "T", "-", "-">>
          /\ FlushText(flushed[2]) = <<"A", "T", "T", "T">>

\* No entry of the window is longer than one character.
NoWidening ==
  \A k \in 1..Len(window) : \A t \in Samples :
    IsNullish(window[k][t]) \/ Len(window[k][t]) <= 1

\* C13: when a window made of a single record is flushed and no entry widens
\* a slot, a sample whose fragment is shorter than the reference has been
\* written the fragment followed by '-' up to the reference length;
\* reference "AG", alternate "A", genotype "1" gives "A-".
C13_DeletionPadded ==
  (SingleRecordFlushed /\ NoWidening) =>
    \A s \in Samples :
      LET fragment == Fragment(consumed[1], s)
          reference == consumed[1].line.reference
      IN (~IsNullish(fragment) /\ Len(fragment) < Len(reference)) =>
           /\ FlushText(flushed[s]) =
                fragment \o Repeat("-", Len(reference) - Len(fragment))
           /\ (reference = <<"A", "G">> /\ fragment = <<"A">>) =>
                FlushText(flushed[s]) = <<"A", "-">>

\* The flush of the single record "AG" with alternate "A" has written "A-"
\* to a sample of genotype "1".
C13_Witness ==
  /\ SingleRecordFlushed
  /\ NoWidening
  /\ consumed[1].line.reference = <<"A", "G">>
  /\ \E s \in Samples :
       /\ consumed[1].samples[s] = <<"1">>
       /\ FlushText(flushed[s]) = <<"A", "-">>

\* The merged line `entry` carries a missing call for sample s.
IsMissingCall(entry, s) == Location(entry.samples[s]) = <<".">>

\* A text made of '-' only.
OnlyGaps(text) == \A i \in 1..Len(text) : text[i] = "-"

FilledEntry(w, k, t) == IF IsNullish(w[k][t]) THEN <<"N">> ELSE w[k][t]

\* The longest of the samples' entries at slot k of the window w.
SlotWidth(w, k) ==
  LET lengths == { Len(FilledEntry(w, k, t)) : t \in Samples }
  IN CHOOSE m \in lengths : \A l \in lengths : l <= m

\* The string the flush of the window w writes to sample s for slot k.
SlotText(w, s, k) ==
  FilledEntry(w, k, s) \o Repeat("-", SlotWidth(w, k) - Len(FilledEntry(w, k, s)))

RECURSIVE WindowText(_, _, _)
\* The text of the first k slots of the window w for sample s.
WindowText(w, s, k) ==
  IF k = 0 THEN <<>> ELSE WindowText(w, s, k - 1) \o SlotText(w, s, k)

\* The loop's data before the first line, with the text written to a sample.
ReplayStart ==
  [window |-> <<>>, windowEnd |-> 0, prevChromosome |-> "", text |-> <<>>]

\* One turn of the record loop for the merged line `entry`, as a function of
\* the data before it: the window is written to sample s in full when the
\* line lies at or past its end, then the line is merged.
ReplayLine(st, entry, s) ==
  LET line == entry.line
      end0 == IF line.chromosome # st.prevChromosome THEN 0 ELSE st.windowEnd
      flush == line.position >= end0
      w1 == IF flush THEN <<>> ELSE st.window
      end1 == IF flush THEN line.position ELSE end0
      w2 == Expand(w1, end1, MinWindowEnd(line), sampleCount)
      end2 == UpdateWindowEnd(end1, MinWindowEnd(line))
  IN [window |-> MergeSamples(w2, WindowPos(line, w2, end2), sampleCount,
                              line, entry.samples),
      windowEnd |-> end2,
      prevChromosome |-> line.chromosome,
      text |-> IF flush
               THEN st.text \o WindowText(st.window, s, Len(st.window))
               ELSE st.text]

RECURSIVE Replay(_, _)
\* The loop's data after the merged lines `lines`, read off the lines alone.
Replay(lines, s) ==
  IF lines = <<>> THEN ReplayStart
  ELSE ReplayLine(Replay(SubSeq(lines, 1, Len(lines) - 1), s),
                  lines[Len(lines)], s)

\* How many slots of the window `w` left by the merged lines the loop has
\* written to sample s since, from the line read and the position of the
\* loop alone.
SlotsWritten(st, s) ==
  IF pc = "flush" THEN fi - 1
  ELSE IF pc = "write" THEN (IF s < si THEN fi ELSE fi - 1)
  ELSE IF /\ pc = "merge"
          /\ \/ record.chromosome # st.prevChromosome
             \/ record.position >= st.windowEnd
       THEN Len(st.window)
  ELSE 0

\* C15: the strings written to each sample's sink, and the text the sink
\* holds, are fixed by the lines read and the position of the loop, whatever
\* the writes returned and whenever the drain signals came: any two runs
\* over the same input write each sink the same sequence of strings.
C15_BackpressureIndependent ==
  \A s \in Samples : \A st \in {Replay(consumed, s)} :
    /\ sinkText[s] = st.text \o WindowText(st.window, s, SlotsWritten(st, s))
    /\ Flushing =>
         /\ Len(flushed[s]) = SlotsWritten(st, s)
         /\ \A n \in 1..Len(flushed[s]) :
              flushed[s][n].text = SlotText(st.window, s, n)

\* A sample whose write returned false has text in its file while the loop
\* goes on writing the window.
C15_Witness ==
  /\ Flushing
  /\ consumed # <<>>
  /\ \E s, t \in Samples :
       /\ drainPending[s] /\ sinkText[s] # <<>>
       /\ ~drainPending[t] /\ sinkText[t] # <<>>

\* C16: at end of input no sample's sink has had end() called while the
\* last write to any sample's sink returned false and its 'drain' has not
\* come: closing waits for the readiness of every sink.
C16_CloseWaitsForReady ==
  \A s, t \in Samples : ended[s] => (~needDrain[t] /\ ~drainPending[t])

\* The step that completes the processing of the record.
RecordProcessed == pc = "merge" /\ pc' = "read"

\* C17 as stated: over the whole sequence of records windowEnd after a
\* record is never below windowEnd after the record before it, and it is at
\* least the record's position + reference length.
C17_NeverDecreases ==
  [][RecordProcessed =>
       /\ windowEnd' >= lastEnd
       /\ windowEnd' >= MinWindowEnd(record)]_vars

\* C17: from one record to the next on the same chromosome windowEnd does
\* not decrease; at the first record of a chromosome it restarts at that
\* record's position + reference length; after every record it is at least
\* the record's position + reference length.
C17_NonDecreasingPerChromosome ==
  [][RecordProcessed =>
       /\ ~chromChanged => windowEnd' >= lastEnd
       /\ chromChanged => windowEnd' = MinWindowEnd(record)
       /\ windowEnd' >= MinWindowEnd(record)]_vars

\* A record has been merged into the window of an earlier record of its
\* chromosome and has set the right edge.
C17_Witness ==
  /\ Merged
  /\ ~chromChanged
  /\ leftEdge < record.position
  /\ windowEnd = MinWindowEnd(record)
  /\ lastEnd = windowEnd

\* C18: for records with non-empty reference alleles in ascending position
\* within each chromosome, no window access of the merge is out of bounds:
\* the loop never ends on a missing slot, and the position of a processed
\* record in the window is at least 0 and its span ends within the window.
C18_IndexSafety ==
  /\ pc # "crashed"
  /\ Merged =>
       /\ 0 <= MergedPos
       /\ MergedPos + Len(record.reference) <= Len(window)
       /\ \A i \in 0..(Len(record.reference) - 1) :
            MergedPos + i + 1 \in DOMAIN window

\* A record of two characters has been merged at the second slot of a window
\* of three slots: its span ends with the window.
C18_Witness ==
  /\ Merged
  /\ MergedPos = 1
  /\ Len(record.reference) = 2
  /\ Len(window) = 3

\* What the record processed last stores for sample s at the k-th slot of
\* its span in an empty window.
FreshEntry(s, k) ==
  LET fragment == getReplacement(Location(samples[s]), record.reference,
                                 record.alternates)
  IN IF IsNullish(fragment) THEN Undefined
     ELSE IF Len(fragment) >= Len(record.reference)
          THEN (IF k = 1 THEN fragment ELSE Undefined)
          ELSE IF k <= Len(fragment) THEN <<fragment[k]>> ELSE <<"-">>

\* C19: after the first record of a new chromosome has been processed the
\* window has exactly as many slots as the record's reference has
\* characters, it begins at the record's position, and every entry is what
\* this record stored or is unset: nothing buffered for the chromosome
\* before is in it.
C19_NoCrossChromosomeMerge ==
  (Merged /\ chromChanged) =>
    /\ Len(window) = Len(record.reference)
    /\ windowEnd - Len(window) = record.position
    /\ leftEdge = record.position
    /\ \A k \in 1..Len(window) : \A s \in Samples :
         window[k][s] = FreshEntry(s, k)

\* The first record of a chromosome has been processed after a record of
\* another chromosome.
C19_Witness ==
  /\ Merged
  /\ chromChanged
  /\ lineNumber >= 2
  /\ Len(window) = 1

====
